---- MODULE Spec2Model ----
(***************************************************************************)
(* The simulation engine of src/src/App.tsx (ParticleSim): the per-tick    *)
(* particle state machine (health status, movement mode, quarantine        *)
(* lifecycle), the contact-based infection pass, the exposed pass, the     *)
(* statistics sync of animate(), restartSimulation and the configuration   *)
(* setters of the control panel.                                           *)
(*                                                                         *)
(* Every Math.random() draw is a nondeterministic choice.  A draw          *)
(* "Math.random() < p" yields TRUE only when p > 0 and FALSE only when     *)
(* p < 1.  Numeric draws (durations, distances, positions) are taken from  *)
(* small sample sets.                                                      *)
(*                                                                         *)
(* Coordinates.  The code moves a particle in a straight line towards a    *)
(* target by min(dist, step) per tick and tests dist < 3; the model keeps  *)
(* the remaining distance to the target, which is what those tests read.   *)
(* The x/y positions read by the infection pass are drawn per tick from    *)
(* PosSamples (the free-motion writes to x, y, vx, vy are not tracked).    *)
(***************************************************************************)
EXTENDS Integers, Sequences, FiniteSets, TLC

\* ------------------------------------------------------------ bounds
\* The model tracks the first NumAgents particles of the population.
NumAgents == 2
\* Ticks executed between two restarts.
MaxTime == 9
\* Ticks executed by a run that is observed from tick LateStart on.
LateTicks == 3
\* Events kept in the log of such a run.
MaxEvents == 2
\* getCommunityBounds is called on the indices -MaxIndex .. MaxIndex.
MaxIndex == 60

\* ------------------------------------------------- program constants
WIDTH == 800
HEIGHT == 740
COMMUNITY_PADDING == 40
COMMUNITY_ROWS == 3
COMMUNITY_COLS == 3
NORMAL_COMMUNITIES == COMMUNITY_ROWS * COMMUNITY_COLS - 1
QUARANTINE_COMMUNITY_IDX == 8
PARTICLE_COUNT == 500
PARTICLES_PER_COMMUNITY == PARTICLE_COUNT \div NORMAL_COMMUNITIES
DETECTION_DELAY == 5
TRANSIT_STEP == 10
TRAVEL_STEP == 8
ARRIVAL_EPS == 3
CELL_MARGIN == 3
WINDOW_SIZE == 50

\* "undefined" for an optional number
Undef == -1

Agents == 0 .. (NumAgents - 1)
Communities == 0 .. (NORMAL_COMMUNITIES - 1)

\* ---------------------------------------------------- sample sets
\* Slider values, scaled down so that a whole episode fits in MaxTime ticks.
\* Every recovery time keeps recoveryTime / 2 >= DETECTION_DELAY - 1, as every
\* slider value (100..300) does.
InitialInfectedValues == {1, 2}
IncubationPeriods == {1}
RecoveryTimes == {8}
InfectionRadii == {20}
\* probabilities in percent
InfectionProbabilities == {0, 20}
DeathRates == {1, 100}
Effectivenesses == {70, 100}
Speeds == {1, 2}
\* remaining distance to the transit / travel target when it is chosen
EntryDistances == {12}
HomeDistances == {12}
TravelDistances == {10}
\* CENTRE_DURATION() + floor(random * 40), VISITING_DURATION + floor(random * 40)
CentreDurations == {2}
VisitDurations == {2}
\* floor(random * available.length)
DestinationDraws == {0}
\* positions read by the infection pass
PosSamples == {<<100, 100>>, <<120, 100>>}

VARIABLES
    particles,                 \* particlesRef.current
    timeRef,                   \* timeRef.current
    infectionEvents,           \* infectionEventsRef.current
    infectedInfectionCounts,   \* infectedInfectionCountsRef.current
    history, historyLen,       \* the last record of history, and history.length
    rt, maxRt,                 \* <<numerator, denominator>>
    initialInfected, incubationPeriod, infectionRadius, infectionProbability,
    recoveryTime, deathRate, speed, quarantineMode, quarantineEffectiveness,
    boundsCall,                \* the last call of getCommunityBounds made from
                               \* outside animate: <<>> or <<idx, result>>
    passCall                   \* the last infection pass run on its own: <<>> or
                               \* its particles, positions and resulting particles

config == <<initialInfected, incubationPeriod, infectionRadius, infectionProbability,
            recoveryTime, deathRate, speed, quarantineMode, quarantineEffectiveness>>
engine == <<particles, timeRef, infectionEvents, infectedInfectionCounts>>
stats == <<history, historyLen, rt, maxRt>>
layout == <<boundsCall, passCall>>
vars == <<engine, stats, config, layout>>

\* ------------------------------------------------------- helpers
Min(a, b) == IF a < b THEN a ELSE b

\* Math.random() * 100 < pct
DrawPercent(pct) == {b \in BOOLEAN : (b => pct > 0) /\ (~b => pct < 100)}
\* mutant: a contact draw that can succeed at probability 0
DrawTenthAlways(pct) == BOOLEAN

\* Math.random() < pct / 100 / 10
DrawTenth(pct) == {b \in BOOLEAN : (b => pct > 0) /\ (~b => pct < 1000)}

Tri(b) == IF b THEN "true" ELSE "false"

\* ------------------------------------------- getCommunityBounds
\* Lengths along x are in units of 1 / COMMUNITY_COLS pixel and lengths along y
\* in units of 1 / COMMUNITY_ROWS pixel, which makes COMMUNITY_WIDTH (lines
\* 27-30), COMMUNITY_HEIGHT and the centres whole numbers.
innerW == WIDTH - COMMUNITY_PADDING * (COMMUNITY_COLS + 1)
innerH == HEIGHT - COMMUNITY_PADDING * (COMMUNITY_ROWS + 1)
COMMUNITY_WIDTH == innerW
COMMUNITY_HEIGHT == innerH

\* the remainder of JavaScript: it has the sign of the dividend
JsRemainder(a, b) == IF a >= 0 THEN a % b ELSE -((-a) % b)

Bounds(minX, maxX, minY, maxY) ==
    [ error |-> "", minX |-> minX, maxX |-> maxX, minY |-> minY, maxY |-> maxY,
      centerX |-> (minX + maxX) \div 2, centerY |-> (minY + maxY) \div 2 ]

Thrown(message) ==
    [ error |-> message, minX |-> 0, maxX |-> 0, minY |-> 0, maxY |-> 0,
      centerX |-> 0, centerY |-> 0 ]

\* lines 73-104
getCommunityBounds(idx) ==
    IF idx = QUARANTINE_COMMUNITY_IDX
    THEN Bounds((WIDTH - COMMUNITY_PADDING) * COMMUNITY_COLS - COMMUNITY_WIDTH,
                (WIDTH - COMMUNITY_PADDING) * COMMUNITY_COLS,
                (HEIGHT - COMMUNITY_PADDING) * COMMUNITY_ROWS - COMMUNITY_HEIGHT,
                (HEIGHT - COMMUNITY_PADDING) * COMMUNITY_ROWS)
    ELSE LET row == idx \div COMMUNITY_COLS
             col == JsRemainder(idx, COMMUNITY_COLS)
             minX == COMMUNITY_PADDING * COMMUNITY_COLS
                       + col * (COMMUNITY_WIDTH + COMMUNITY_PADDING * COMMUNITY_COLS)
             minY == COMMUNITY_PADDING * COMMUNITY_ROWS
                       + row * (COMMUNITY_HEIGHT + COMMUNITY_PADDING * COMMUNITY_ROWS)
         IN IF idx > 7
            THEN Thrown("Quarantine only at index 8")
            ELSE Bounds(minX, minX + COMMUNITY_WIDTH, minY, minY + COMMUNITY_HEIGHT)

\* ------------------------------------------------- initialState
InitialParticle(i, nInfected) ==
    LET community == i \div PARTICLES_PER_COMMUNITY
        home == Min(community, NORMAL_COMMUNITIES - 1)
    IN [ status |-> IF i < nInfected THEN "infected" ELSE "healthy",
         timeInfected |-> 0,
         willDie |-> "undefined",
         infectionCount |-> 0,
         homeCommunity |-> home,
         currentCommunity |-> home,
         isVisiting |-> FALSE,
         isTravelling |-> FALSE,
         travelTarget |-> Undef,
         travellingBack |-> FALSE,
         visitTimeLeft |-> 0,
         atCentre |-> FALSE,
         centreTimeLeft |-> 0,
         quarantined |-> FALSE,
         timeSinceInfected |-> IF i < nInfected THEN 0 ELSE Undef,
         quarantineEntryAnim |-> Undef,
         releasedFromQuarantine |-> FALSE,
         quarantineEligible |-> "undefined",
         goingHomeAnim |-> Undef ]

initialState(nInfected) == [i \in Agents |-> InitialParticle(i, nInfected)]

\* ------------------------------------- animate: quarantine logic
\* lines 218-223: start counting for an infected particle
QuarantineClock(p) ==
    IF p.status = "infected" /\ p.timeSinceInfected = Undef
    THEN [p EXCEPT !.timeSinceInfected = 0]
    ELSE p

\* mutant: the eligibility draw without the test of the health status
QuarantineEligibilityAnyStatus(p) ==
    IF p.quarantineEligible = "undefined"
    THEN {[p EXCEPT !.quarantineEligible = Tri(b)] : b \in DrawPercent(quarantineEffectiveness)}
    ELSE {p}

\* mutant: the eligibility is drawn again on every tick
QuarantineEligibilityRedrawn(p) ==
    IF p.status = "infected"
    THEN {[p EXCEPT !.quarantineEligible = Tri(b)] : b \in DrawPercent(quarantineEffectiveness)}
    ELSE {p}

\* lines 225-232: the eligibility draw, once per infection
QuarantineEligibility(p) ==
    IF p.status = "infected" /\ p.quarantineEligible = "undefined"
    THEN {[p EXCEPT !.quarantineEligible = Tri(b)] : b \in DrawPercent(quarantineEffectiveness)}
    ELSE {p}

\* mutant: the transit starts one tick late
StartsEntryLate(p) ==
    /\ p.timeSinceInfected > DETECTION_DELAY
    /\ ~p.quarantined
    /\ p.quarantineEntryAnim = Undef

\* lines 243-261: the start of the entry transit
StartsEntry(p) ==
    /\ p.timeSinceInfected >= DETECTION_DELAY
    /\ ~p.quarantined
    /\ p.quarantineEntryAnim = Undef

\* mutant: the start of the transit leaves the visit flag set
StartEntryKeepsVisit(p, d) ==
    [p EXCEPT !.quarantineEntryAnim = d,
              !.isTravelling = FALSE,
              !.atCentre = FALSE,
              !.centreTimeLeft = 0,
              !.travellingBack = FALSE]

StartEntry(p, d) ==
    [p EXCEPT !.quarantineEntryAnim = d,
              !.isTravelling = FALSE,
              !.isVisiting = FALSE,
              !.atCentre = FALSE,
              !.centreTimeLeft = 0,
              !.travellingBack = FALSE]

\* mutant: the detection does not look at the eligibility
DetectionGuardAnyEligibility(p) ==
    /\ p.status = "infected"
    /\ ~p.quarantined
    /\ p.currentCommunity # QUARANTINE_COMMUNITY_IDX

\* lines 234-262: detection delay of an eligible particle
DetectionGuard(p) ==
    /\ p.status = "infected"
    /\ p.quarantineEligible = "true"
    /\ ~p.quarantined
    /\ p.currentCommunity # QUARANTINE_COMMUNITY_IDX

QuarantineDetection(p) ==
    IF DetectionGuard(p)
    THEN LET q == [p EXCEPT !.timeSinceInfected = (IF @ = Undef THEN 0 ELSE @) + 1]
         IN IF StartsEntry(q)
            THEN {StartEntry(q, d) : d \in EntryDistances}
            ELSE {q}
    ELSE {p}

\* lines 264-267
QuarantinedClock(p) ==
    IF p.quarantined /\ p.status = "infected"
    THEN [p EXCEPT !.timeSinceInfected = (IF @ = Undef THEN 0 ELSE @) + 1]
    ELSE p

\* lines 269-282: release of a recovered or dead particle
ReleaseGuard(p) ==
    /\ p.quarantined
    /\ p.status \in {"recovered", "dead"}
    /\ p.goingHomeAnim = Undef

QuarantineRelease(p) ==
    IF ReleaseGuard(p)
    THEN {[p EXCEPT !.goingHomeAnim = d] : d \in HomeDistances}
    ELSE {p}

\* lines 218-282: the quarantine logic of one particle
QuarantineSteps(p) ==
    UNION { UNION { QuarantineRelease(QuarantinedClock(p3)) :
                    p3 \in QuarantineDetection(p2) } :
            p2 \in QuarantineEligibility(QuarantineClock(p)) }

\* mutant: the quarantine logic runs whatever the checkbox says
QuarantineLogicUnguarded(p) == QuarantineSteps(p)

\* mutant: the release runs whatever the checkbox says
QuarantineLogicReleaseUnguarded(p) ==
    IF quarantineMode THEN QuarantineSteps(p) ELSE QuarantineRelease(p)

\* lines 216-283
QuarantineLogic(p) == IF quarantineMode THEN QuarantineSteps(p) ELSE {p}

\* ------------------------------------- animate: transit animations
\* mutant: the arrival does not move the particle to the quarantine community
AnimateEntryKeepsCommunity(p) ==
    LET dist == p.quarantineEntryAnim
        step == Min(dist, TRANSIT_STEP)
    IN IF dist < ARRIVAL_EPS
       THEN [p EXCEPT !.quarantined = TRUE, !.quarantineEntryAnim = Undef]
       ELSE [p EXCEPT !.quarantineEntryAnim = dist - step]

\* lines 286-306
AnimateEntry(p) ==
    LET dist == p.quarantineEntryAnim
        step == Min(dist, TRANSIT_STEP)
    IN IF dist < ARRIVAL_EPS
       THEN [p EXCEPT !.quarantined = TRUE,
                      !.currentCommunity = QUARANTINE_COMMUNITY_IDX,
                      !.quarantineEntryAnim = Undef]
       ELSE [p EXCEPT !.quarantineEntryAnim = dist - step]

\* mutant: the arrival home leaves the particle in the quarantine community
AnimateGoingHomeStaysInEight(p) ==
    LET dist == p.goingHomeAnim
        step == Min(dist, TRANSIT_STEP)
    IN IF dist < ARRIVAL_EPS
       THEN [p EXCEPT !.quarantined = FALSE,
                      !.quarantineEligible = "undefined",
                      !.timeSinceInfected = Undef,
                      !.goingHomeAnim = Undef,
                      !.atCentre = FALSE,
                      !.isVisiting = FALSE,
                      !.isTravelling = FALSE,
                      !.travellingBack = FALSE]
       ELSE [p EXCEPT !.goingHomeAnim = dist - step]

\* mutant: the arrival home keeps the quarantine bookkeeping
AnimateGoingHomeKeepsBookkeeping(p) ==
    LET dist == p.goingHomeAnim
        step == Min(dist, TRANSIT_STEP)
    IN IF dist < ARRIVAL_EPS
       THEN [p EXCEPT !.currentCommunity = p.homeCommunity,
                      !.quarantined = FALSE,
                      !.goingHomeAnim = Undef,
                      !.atCentre = FALSE,
                      !.isVisiting = FALSE,
                      !.isTravelling = FALSE,
                      !.travellingBack = FALSE]
       ELSE [p EXCEPT !.goingHomeAnim = dist - step]

\* lines 309-336
AnimateGoingHome(p) ==
    LET dist == p.goingHomeAnim
        step == Min(dist, TRANSIT_STEP)
    IN IF dist < ARRIVAL_EPS
       THEN [p EXCEPT !.currentCommunity = p.homeCommunity,
                      !.quarantined = FALSE,
                      !.quarantineEligible = "undefined",
                      !.timeSinceInfected = Undef,
                      !.goingHomeAnim = Undef,
                      !.atCentre = FALSE,
                      !.isVisiting = FALSE,
                      !.isTravelling = FALSE,
                      !.travellingBack = FALSE]
       ELSE [p EXCEPT !.goingHomeAnim = dist - step]

\* ------------------------------- animate: normal community behaviour
\* lines 364-380: entering the centre
CentreEntry(p) ==
    IF /\ ~p.atCentre
       /\ ~p.isTravelling
       /\ ~p.isVisiting
       /\ p.currentCommunity # QUARANTINE_COMMUNITY_IDX
    THEN {p} \cup {[p EXCEPT !.atCentre = TRUE, !.centreTimeLeft = d] : d \in CentreDurations}
    ELSE {p}

\* lines 381-394
CentreStep(p) ==
    LET q == [p EXCEPT !.centreTimeLeft = @ - 1]
    IN IF q.centreTimeLeft <= 0 THEN [q EXCEPT !.atCentre = FALSE] ELSE q

\* lines 397-430
TravelArrive(p, visit) ==
    LET q == [p EXCEPT !.isTravelling = FALSE, !.travelTarget = Undef]
    IN IF p.travellingBack
       THEN [q EXCEPT !.travellingBack = FALSE,
                      !.isVisiting = FALSE,
                      !.currentCommunity = p.homeCommunity]
       ELSE [q EXCEPT !.isVisiting = TRUE, !.visitTimeLeft = visit]

TravelStep(p) ==
    LET targets == IF p.travelTarget = Undef THEN TravelDistances ELSE {p.travelTarget}
    IN UNION { IF dist < ARRIVAL_EPS
               THEN {TravelArrive(p, v) : v \in (IF p.travellingBack THEN {0} ELSE VisitDurations)}
               ELSE {[p EXCEPT !.travelTarget = dist - Min(TRAVEL_STEP, dist)]} :
               dist \in targets }

\* mutant: the home community is among the destinations
AvailableWithHome(p) == Communities

\* lines 461-466: the communities a traveller may pick
Available(p) == {ci \in Communities : ci # p.homeCommunity}

AvailableAt(p, k) ==
    CHOOSE ci \in Available(p) : Cardinality({cj \in Available(p) : cj < ci}) = k

\* lines 454-474
RandomTravel(p) ==
    IF /\ ~p.isVisiting
       /\ ~p.isTravelling
       /\ p.currentCommunity # QUARANTINE_COMMUNITY_IDX
       /\ Cardinality(Available(p)) > 0
    THEN {p} \cup {[p EXCEPT !.currentCommunity = AvailableAt(p, k),
                             !.isTravelling = TRUE,
                             !.travellingBack = FALSE,
                             !.visitTimeLeft = 0,
                             !.travelTarget = Undef] : k \in DestinationDraws}
    ELSE {p}

\* lines 476-486
VisitExpiry(p) ==
    IF p.isVisiting /\ ~p.isTravelling
    THEN LET q == [p EXCEPT !.visitTimeLeft = @ - 1]
         IN IF q.visitTimeLeft <= 0
            THEN [q EXCEPT !.isTravelling = TRUE,
                           !.travellingBack = TRUE,
                           !.travelTarget = Undef,
                           !.isVisiting = FALSE,
                           !.currentCommunity = p.homeCommunity]
            ELSE q
    ELSE p

\* lines 345-486
NormalBehaviour(p) ==
    UNION { IF q.atCentre THEN {CentreStep(q)}
            ELSE IF q.isTravelling THEN TravelStep(q)
            ELSE {VisitExpiry(r) : r \in RandomTravel(q)} :
            q \in CentreEntry(p) }

\* lines 285-343: which motion rule a particle takes
MotionRule(p) ==
    IF p.quarantineEntryAnim # Undef THEN {AnimateEntry(p)}
    ELSE IF p.goingHomeAnim # Undef THEN {AnimateGoingHome(p)}
    ELSE IF p.quarantined THEN {p}
    ELSE NormalBehaviour(p)

\* lines 213-487: one particle's update in the first loop of a tick
UpdateParticle(p) == UNION { MotionRule(q) : q \in QuarantineLogic(p) }

RECURSIVE UpdateFrom(_, _)
UpdateFrom(ps, i) ==
    IF i = NumAgents THEN {ps}
    ELSE UNION { UpdateFrom([ps EXCEPT ![i] = q], i + 1) : q \in UpdateParticle(ps[i]) }

UpdateAll(ps) == UpdateFrom(ps, 0)

\* ------------------------------------------ animate: infection logic
\* makeSpatialHash (lines 106-121): the (index, cell) pairs of one community
makeSpatialHash(ps, pos, cellSize, onlyCommunity) ==
    { <<j, pos[j][1] \div cellSize, pos[j][2] \div cellSize>> :
        j \in {k \in Agents : /\ ps[k].currentCommunity = onlyCommunity
                              /\ ps[k].status # "dead"} }

\* getNearbyCellCoords (lines 122-130)
getNearbyCellCoords(x, y, radius, cellSize) ==
    ((x - radius) \div cellSize .. (x + radius) \div cellSize)
        \X ((y - radius) \div cellSize .. (y + radius) \div cellSize)

\* mutant: a contact at a distance equal to the radius
InContactAtRadius(ps, pos, i, j) ==
    /\ \/ ps[i].atCentre /\ ps[j].atCentre /\ ps[i].currentCommunity = ps[j].currentCommunity
       \/ ~ps[i].atCentre /\ ~ps[j].atCentre
    /\ LET dx == pos[i][1] - pos[j][1]
           dy == pos[i][2] - pos[j][2]
       IN dx * dx + dy * dy <= infectionRadius * infectionRadius

\* lines 523-528: the pair filter and the distance test
InContact(ps, pos, i, j) ==
    /\ \/ ps[i].atCentre /\ ps[j].atCentre /\ ps[i].currentCommunity = ps[j].currentCommunity
       \/ ~ps[i].atCentre /\ ~ps[j].atCentre
    /\ LET dx == pos[i][1] - pos[j][1]
           dy == pos[i][2] - pos[j][2]
       IN dx * dx + dy * dy < infectionRadius * infectionRadius

\* mutant: the contact does not look at the health status of the other particle
CandidatesAnyStatus(ps, pos, hash, i) ==
    LET cellSize == infectionRadius + CELL_MARGIN
        cells == getNearbyCellCoords(pos[i][1], pos[i][2], infectionRadius, cellSize)
    IN { j \in Agents : /\ \E c \in cells : <<j, c[1], c[2]>> \in hash
                        /\ i # j
                        /\ InContact(ps, pos, i, j) }

\* lines 512-528: the healthy particles an infected particle may infect
Candidates(ps, pos, hash, i) ==
    LET cellSize == infectionRadius + CELL_MARGIN
        cells == getNearbyCellCoords(pos[i][1], pos[i][2], infectionRadius, cellSize)
    IN { j \in Agents : /\ \E c \in cells : <<j, c[1], c[2]>> \in hash
                        /\ i # j
                        /\ ps[j].status = "healthy"
                        /\ InContact(ps, pos, i, j) }

RECURSIVE AppendN(_, _, _)
AppendN(seq, e, n) == IF n = 0 THEN seq ELSE AppendN(Append(seq, e), e, n - 1)

\* mutant: the contacts are logged but not counted for the source
InfectUncounted(st, i, targets, now) ==
    LET n == Cardinality(targets)
    IN IF n = 0 THEN st
       ELSE [ ps |-> [j \in Agents |->
                        IF j \in targets
                        THEN [st.ps[j] EXCEPT !.status = "exposed", !.timeInfected = 0]
                        ELSE st.ps[j]],
              events |-> AppendN(st.events, [infectorIndex |-> i, time |-> now], n),
              counts |-> st.counts ]

\* lines 529-538: the contact draws of particle i at time now
Infect(st, i, targets, now) ==
    LET n == Cardinality(targets)
        cnt == IF st.counts[i] = Undef THEN 0 ELSE st.counts[i]
    IN IF n = 0 THEN st
       ELSE [ ps |-> [j \in Agents |->
                        IF j \in targets
                        THEN [st.ps[j] EXCEPT !.status = "exposed", !.timeInfected = 0]
                        ELSE st.ps[j]],
              events |-> AppendN(st.events, [infectorIndex |-> i, time |-> now], n),
              counts |-> [st.counts EXCEPT ![i] = cnt + n] ]

\* mutant: the death does not look at the outcome drawn
DiesWhateverDrawn(p) == 2 * p.timeInfected > recoveryTime

\* lines 502-511: the outcome of an infection
Dies(p) == p.willDie = "true" /\ 2 * p.timeInfected > recoveryTime
Recovers(p) == p.willDie # "true" /\ p.timeInfected > recoveryTime

\* mutant: a quarantined particle is taken in the pass of its home community
InfectionStepQuarantinedAtHome(st, pos, hash, community, i, now) ==
    LET p == st.ps[i]
        member == IF p.quarantined THEN p.homeCommunity ELSE p.currentCommunity
    IN IF member # community \/ p.status # "infected"
       THEN {st}
       ELSE UNION {
         LET drawn == p.willDie = "undefined"
             q == [p EXCEPT !.timeInfected = @ + 1,
                            !.willDie = wd,
                            !.infectionCount = IF drawn THEN 0 ELSE @]
             counts1 == IF drawn THEN [st.counts EXCEPT ![i] = 0] ELSE st.counts
             st1 == [st EXCEPT !.ps[i] = q, !.counts = counts1]
         IN IF Dies(q)
            THEN {[st1 EXCEPT !.ps[i].status = "dead", !.counts[i] = Undef]}
            ELSE IF Recovers(q)
            THEN {[st1 EXCEPT !.ps[i].status = "recovered", !.counts[i] = Undef]}
            ELSE { Infect(st1, i, targets, now) :
                     targets \in { T \in SUBSET Candidates(st1.ps, pos, hash, i) :
                                     \A j \in T : TRUE \in DrawTenth(infectionProbability) } }
         : wd \in (IF p.willDie = "undefined"
                   THEN {Tri(b) : b \in DrawPercent(deathRate)}
                   ELSE {p.willDie}) }

\* lines 495-543: particle i in the pass of one community
InfectionStep(st, pos, hash, community, i, now) ==
    LET p == st.ps[i]
    IN IF p.currentCommunity # community \/ p.quarantined \/ p.status # "infected"
       THEN {st}
       ELSE UNION {
         LET drawn == p.willDie = "undefined"
             q == [p EXCEPT !.timeInfected = @ + 1,
                            !.willDie = wd,
                            !.infectionCount = IF drawn THEN 0 ELSE @]
             counts1 == IF drawn THEN [st.counts EXCEPT ![i] = 0] ELSE st.counts
             st1 == [st EXCEPT !.ps[i] = q, !.counts = counts1]
         IN IF Dies(q)
            THEN {[st1 EXCEPT !.ps[i].status = "dead", !.counts[i] = Undef]}
            ELSE IF Recovers(q)
            THEN {[st1 EXCEPT !.ps[i].status = "recovered", !.counts[i] = Undef]}
            ELSE { Infect(st1, i, targets, now) :
                     targets \in { T \in SUBSET Candidates(st1.ps, pos, hash, i) :
                                     \A j \in T : TRUE \in DrawTenth(infectionProbability) } }
         : wd \in (IF p.willDie = "undefined"
                   THEN {Tri(b) : b \in DrawPercent(deathRate)}
                   ELSE {p.willDie}) }

RECURSIVE InfectionFrom(_, _, _, _, _, _)
InfectionFrom(st, pos, hash, community, i, now) ==
    IF i = NumAgents THEN {st}
    ELSE UNION { InfectionFrom(st2, pos, hash, community, i + 1, now) :
                 st2 \in InfectionStep(st, pos, hash, community, i, now) }

\* lines 491-544: the communities in turn, each with its own hash
RECURSIVE InfectionPass(_, _, _, _)
InfectionPass(st, pos, community, now) ==
    IF community = NORMAL_COMMUNITIES THEN {st}
    ELSE LET hash == makeSpatialHash(st.ps, pos, infectionRadius + CELL_MARGIN, community)
         IN UNION { InfectionPass(st2, pos, community + 1, now) :
                    st2 \in InfectionFrom(st, pos, hash, community, 0, now) }

\* mutant: the timer is not reset when the incubation ends
ExposedStepKeepsTimer(p) ==
    IF p.status = "exposed"
    THEN LET q == [p EXCEPT !.timeInfected = @ + 1]
         IN IF q.timeInfected > incubationPeriod
            THEN LET r == [q EXCEPT !.status = "infected", !.willDie = "undefined"]
                 IN IF quarantineMode
                    THEN [r EXCEPT !.timeSinceInfected = 0,
                                   !.quarantineEligible = "undefined"]
                    ELSE r
            ELSE q
    ELSE p

\* mutant: the incubation ends when the timer reaches the period
ExposedStepAtThreshold(p) ==
    IF p.status = "exposed"
    THEN LET q == [p EXCEPT !.timeInfected = @ + 1]
         IN IF q.timeInfected >= incubationPeriod
            THEN LET r == [q EXCEPT !.status = "infected",
                                    !.timeInfected = 0,
                                    !.willDie = "undefined"]
                 IN IF quarantineMode
                    THEN [r EXCEPT !.timeSinceInfected = 0,
                                   !.quarantineEligible = "undefined"]
                    ELSE r
            ELSE q
    ELSE p

\* lines 546-562: the exposed pass
ExposedStep(p) ==
    IF p.status = "exposed"
    THEN LET q == [p EXCEPT !.timeInfected = @ + 1]
         IN IF q.timeInfected > incubationPeriod
            THEN LET r == [q EXCEPT !.status = "infected",
                                    !.timeInfected = 0,
                                    !.willDie = "undefined"]
                 IN IF quarantineMode
                    THEN [r EXCEPT !.timeSinceInfected = 0,
                                   !.quarantineEligible = "undefined"]
                    ELSE r
            ELSE q
    ELSE p

ExposedPass(ps) == [i \in Agents |-> ExposedStep(ps[i])]

\* lines 209-563: the outcomes of one iteration of the tick loop, from the
\* particles, events and counts of st, at time now (timeRef after its increment)
TickOutcomes(st, now) ==
    { [st3 EXCEPT !.ps = ExposedPass(st3.ps)] :
        st3 \in UNION { UNION { InfectionPass([st EXCEPT !.ps = ps1], pos, 0, now) :
                                pos \in [Agents -> PosSamples] } :
                        ps1 \in UpdateAll(st.ps) } }

\* the loop "for (s = 0; s < speed; ++s)": n more ticks after time now
RECURSIVE TickLoop(_, _, _)
TickLoop(st, n, now) ==
    IF n = 0 THEN {st}
    ELSE UNION { TickLoop(st2, n - 1, now + 1) : st2 \in TickOutcomes(st, now + 1) }

\* ------------------------------------------- animate: statistics
\* mutant: a quarantined particle is counted under its health status too
CountWithQuarantined(ps, status) ==
    Cardinality({i \in Agents : ps[i].status = status})

\* lines 615-626
Count(ps, status) ==
    Cardinality({i \in Agents : ~ps[i].quarantined /\ ps[i].status = status})

\* mutant: the record is stamped with the time of the last tick but one
CountsStampedEarly(ps, now) ==
    [ time |-> now - 1,
      healthy |-> Count(ps, "healthy"),
      exposed |-> Count(ps, "exposed"),
      infected |-> Count(ps, "infected"),
      recovered |-> Count(ps, "recovered"),
      dead |-> Count(ps, "dead"),
      quarantined |-> Cardinality({i \in Agents : ps[i].quarantined}) ]

\* mutant: the quarantined count takes the infected particles only
CountsQuarantinedInfected(ps, now) ==
    [ time |-> now,
      healthy |-> Count(ps, "healthy"),
      exposed |-> Count(ps, "exposed"),
      infected |-> Count(ps, "infected"),
      recovered |-> Count(ps, "recovered"),
      dead |-> Count(ps, "dead"),
      quarantined |-> Cardinality({i \in Agents : /\ ps[i].quarantined
                                                  /\ ps[i].status = "infected"}) ]

\* lines 615-630: the record of a frame
Counts(ps, now) ==
    [ time |-> now,
      healthy |-> Count(ps, "healthy"),
      exposed |-> Count(ps, "exposed"),
      infected |-> Count(ps, "infected"),
      recovered |-> Count(ps, "recovered"),
      dead |-> Count(ps, "dead"),
      quarantined |-> Cardinality({i \in Agents : ps[i].quarantined}) ]

RECURSIVE SumOver(_, _)
SumOver(f, S) ==
    IF S = {} THEN 0
    ELSE LET x == CHOOSE y \in S : TRUE IN f[x] + SumOver(f, S \ {x})

RECURSIVE Gcd(_, _)
Gcd(a, b) == IF b = 0 THEN a ELSE Gcd(b, a % b)

Ratio(a, b) == LET g == Gcd(a, b) IN IF a = 0 THEN <<0, 1>> ELSE <<a \div g, b \div g>>

\* Math.max on two ratios
RatioMax(a, b) == IF a[1] * b[2] >= b[1] * a[2] THEN a ELSE b

\* mutant: the estimate is taken over the whole log
NewRtWholeLog(events, counts, now) ==
    LET activeInfectors == {events[k].infectorIndex : k \in 1 .. Len(events)}
        count == [i \in Agents |-> IF counts[i] = Undef THEN 0 ELSE counts[i]]
        totalInfections == SumOver(count, activeInfectors)
    IN IF Cardinality(activeInfectors) > 0
       THEN Ratio(totalInfections, Cardinality(activeInfectors))
       ELSE <<0, 1>>

\* lines 631-647
NewRt(events, counts, now) ==
    LET cutoff == now - WINDOW_SIZE
        recent == {k \in 1 .. Len(events) : events[k].time > cutoff}
        activeInfectors == {events[k].infectorIndex : k \in recent}
        count == [i \in Agents |-> IF counts[i] = Undef THEN 0 ELSE counts[i]]
        totalInfections == SumOver(count, activeInfectors)
    IN IF Cardinality(activeInfectors) > 0
       THEN Ratio(totalInfections, Cardinality(activeInfectors))
       ELSE <<0, 1>>

\* ------------------------------------------------------- actions
EmptyCounts == [i \in Agents |-> Undef]

\* The state restartSimulation leaves (lines 189-200) under a configuration set
\* on the sliders.  Start / Pause only decides whether animate is scheduled:
\* a paused simulation is a behaviour that takes no Tick.
InitWith(infected, mode, effectiveness, death, probability, recovery) ==
    /\ initialInfected = infected
    /\ incubationPeriod \in IncubationPeriods
    /\ infectionRadius \in InfectionRadii
    /\ infectionProbability = probability
    /\ recoveryTime = recovery
    /\ deathRate = death
    /\ speed = 1
    /\ quarantineMode = mode
    /\ quarantineEffectiveness = effectiveness
    /\ particles = initialState(infected)
    /\ history = <<>>
    /\ historyLen = 0
    /\ rt = <<0, 1>>
    /\ maxRt = <<0, 1>>
    /\ timeRef = 0
    /\ infectionEvents = <<>>
    /\ infectedInfectionCounts = EmptyCounts
    /\ boundsCall = <<>>
    /\ passCall = <<>>

\* the defaults of lines 169-175, one particle infected
Init == \E r \in RecoveryTimes : InitWith(1, FALSE, 70, 1, 20, r)

\* The horizon of a run: MaxTime ticks from a restart, LateTicks ticks for a run
\* observed from the tick at which the first events leave the window of NewRt.
LateStart == WINDOW_SIZE
TimeLimit == IF timeRef >= LateStart THEN LateStart + LateTicks ELSE MaxTime

\* animate (lines 208-653): speed ticks, then the statistics of the frame
animate ==
    /\ timeRef + speed <= TimeLimit
    /\ timeRef' = timeRef + speed
    /\ \E st \in TickLoop([ps |-> particles,
                           events |-> infectionEvents,
                           counts |-> infectedInfectionCounts], speed, timeRef) :
          /\ particles' = st.ps
          /\ infectionEvents' = st.events
          /\ infectedInfectionCounts' = st.counts
          /\ history' = <<Counts(st.ps, timeRef + speed)>>
          /\ LET newRt == NewRt(st.events, st.counts, timeRef + speed)
             IN /\ rt' = newRt
                /\ maxRt' = RatioMax(maxRt, newRt)
    /\ historyLen' = historyLen + 1
    /\ UNCHANGED <<config, layout>>

\* mutant: a restart that keeps the infection log and the per-source counts
restartSimulationKeepsLog ==
    /\ particles' = initialState(initialInfected)
    /\ history' = <<>>
    /\ historyLen' = 0
    /\ timeRef' = 0
    /\ rt' = <<0, 1>>
    /\ maxRt' = <<0, 1>>
    /\ UNCHANGED <<infectionEvents, infectedInfectionCounts, config, layout>>

\* restartSimulation (lines 189-200)
restartSimulation ==
    /\ particles' = initialState(initialInfected)
    /\ history' = <<>>
    /\ historyLen' = 0
    /\ timeRef' = 0
    /\ infectionEvents' = <<>>
    /\ infectedInfectionCounts' = EmptyCounts
    /\ rt' = <<0, 1>>
    /\ maxRt' = <<0, 1>>
    /\ UNCHANGED <<config, layout>>

setQuarantineMode ==
    /\ quarantineMode' = ~quarantineMode
    /\ UNCHANGED <<engine, stats, layout, initialInfected, incubationPeriod,
                   infectionRadius, infectionProbability, recoveryTime, deathRate,
                   speed, quarantineEffectiveness>>

setQuarantineEffectiveness ==
    /\ quarantineMode
    /\ \E v \in Effectivenesses \ {quarantineEffectiveness} : quarantineEffectiveness' = v
    /\ UNCHANGED <<engine, stats, layout, initialInfected, incubationPeriod,
                   infectionRadius, infectionProbability, recoveryTime, deathRate,
                   speed, quarantineMode>>

setDeathRate ==
    /\ \E v \in DeathRates \ {deathRate} : deathRate' = v
    /\ UNCHANGED <<engine, stats, layout, initialInfected, incubationPeriod,
                   infectionRadius, infectionProbability, recoveryTime,
                   speed, quarantineMode, quarantineEffectiveness>>

setInfectionProbability ==
    /\ \E v \in InfectionProbabilities \ {infectionProbability} : infectionProbability' = v
    /\ UNCHANGED <<engine, stats, layout, initialInfected, incubationPeriod,
                   infectionRadius, recoveryTime, deathRate,
                   speed, quarantineMode, quarantineEffectiveness>>

setInitialInfected ==
    /\ \E v \in InitialInfectedValues \ {initialInfected} : initialInfected' = v
    /\ UNCHANGED <<engine, stats, layout, incubationPeriod,
                   infectionRadius, infectionProbability, recoveryTime, deathRate,
                   speed, quarantineMode, quarantineEffectiveness>>

setSpeed ==
    /\ \E v \in Speeds \ {speed} : speed' = v
    /\ UNCHANGED <<engine, stats, layout, initialInfected, incubationPeriod,
                   infectionRadius, infectionProbability, recoveryTime, deathRate,
                   quarantineMode, quarantineEffectiveness>>

\* the incubation slider (line 686), on the scale of IncubationPeriods
IncubationChoices == {1, 2, 3}

setIncubationPeriod ==
    /\ \E v \in IncubationChoices \ {incubationPeriod} : incubationPeriod' = v
    /\ UNCHANGED <<engine, stats, layout, initialInfected,
                   infectionRadius, infectionProbability, recoveryTime, deathRate,
                   speed, quarantineMode, quarantineEffectiveness>>

\* The engine under the default probabilities, which leave every draw both of
\* its outcomes, with the quarantine checkbox switched at will.
Next ==
    \/ animate
    \/ restartSimulation
    \/ setQuarantineMode

Spec == Init /\ [][Next]_vars

\* Death rate 1.0 for the whole run, any quarantine setting.  The recovery time
\* leaves room for a particle to reach the quarantine before it is due to die.
InitDeath == InitWith(1, FALSE, 100, 100, 20, 12)

NextDeath ==
    \/ animate
    \/ restartSimulation
    \/ setQuarantineMode

SpecDeath == InitDeath /\ [][NextDeath]_vars

\* Quarantine mode enabled with effectiveness 100% for the whole run.
InitQuarantine == \E r \in RecoveryTimes : InitWith(1, TRUE, 100, 1, 20, r)

NextQuarantine ==
    \/ animate
    \/ restartSimulation
    \/ setDeathRate

SpecQuarantine == InitQuarantine /\ [][NextQuarantine]_vars

\* Infection probability 0 for the whole run.
InitNoInfection == \E r \in RecoveryTimes : InitWith(1, FALSE, 70, 1, 0, r)

NextNoInfection ==
    \/ animate
    \/ restartSimulation
    \/ setQuarantineMode
    \/ setQuarantineEffectiveness
    \/ setDeathRate

SpecNoInfection == InitNoInfection /\ [][NextNoInfection]_vars

\* Quarantine mode disabled from restart onward.
InitNoQuarantine == \E r \in RecoveryTimes : InitWith(1, FALSE, 70, 1, 20, r)

NextNoQuarantine ==
    \/ animate
    \/ restartSimulation
    \/ setDeathRate
    \/ setInfectionProbability

SpecNoQuarantine == InitNoQuarantine /\ [][NextNoQuarantine]_vars

\* Restarts with the number of initially infected particles changed in between,
\* quarantine mode enabled.
InitRestart == \E r \in RecoveryTimes : InitWith(1, TRUE, 70, 1, 20, r)

NextRestart ==
    \/ animate
    \/ restartSimulation
    \/ setInitialInfected

SpecRestart == InitRestart /\ [][NextRestart]_vars

\* A run observed from tick LateStart on, under the default settings (recovery
\* time 300, quarantine mode off): the first two particles were infected at the
\* restart and still are, and each has infected particles outside the tracked
\* ones at the ticks of EventTimes.  The log is in the order of the pushes (by
\* tick, then by source), the count of a source is the number of its events,
\* and rt, maxRt and the history are those the earlier frames have left.
EventTimes == {1, 2, 3, LateStart}

EventRecords == [infectorIndex : {0, 1}, time : EventTimes]

PushedBefore(e, f) ==
    \/ e.time < f.time
    \/ e.time = f.time /\ e.infectorIndex <= f.infectorIndex

EventLogs ==
    UNION { {log \in [1 .. n -> EventRecords] :
               \A k \in 1 .. (n - 1) : PushedBefore(log[k], log[k + 1])} :
            n \in 0 .. MaxEvents }

LogUpTo(log, t) == SelectSeq(log, LAMBDA e : e.time <= t)

CountsOf(log) ==
    [i \in Agents |-> IF i < 2
                      THEN Cardinality({k \in 1 .. Len(log) : log[k].infectorIndex = i})
                      ELSE Undef]

\* the maximum of the estimates of the frames up to LateStart: no event has left
\* the window yet, so the estimate only changed at the ticks of EventTimes
PastMaxRt(log) ==
    LET past == {<<0, 1>>} \cup
                {NewRt(LogUpTo(log, t), CountsOf(LogUpTo(log, t)), t) : t \in EventTimes}
    IN CHOOSE m \in past : \A c \in past : m[1] * c[2] >= c[1] * m[2]

LateParticle(i, wd) ==
    IF i < 2
    THEN [InitialParticle(i, 2) EXCEPT !.timeInfected = LateStart, !.willDie = wd]
    ELSE InitialParticle(i, 2)

InitEstimator ==
    /\ initialInfected = 2
    /\ incubationPeriod \in IncubationPeriods
    /\ infectionRadius \in InfectionRadii
    /\ infectionProbability = 20
    /\ recoveryTime = 300
    /\ deathRate = 1
    /\ speed = 1
    /\ quarantineMode = FALSE
    /\ quarantineEffectiveness = 70
    /\ timeRef = LateStart
    /\ \E wd \in [Agents -> {Tri(b) : b \in DrawPercent(deathRate)}] :
          particles = [i \in Agents |-> LateParticle(i, wd[i])]
    /\ infectionEvents \in EventLogs
    /\ infectedInfectionCounts = CountsOf(infectionEvents)
    /\ history = <<Counts(particles, LateStart)>>
    /\ historyLen = LateStart
    /\ rt = NewRt(infectionEvents, infectedInfectionCounts, LateStart)
    /\ maxRt = PastMaxRt(infectionEvents)
    /\ boundsCall = <<>>
    /\ passCall = <<>>

NextEstimator ==
    \/ animate
    \/ restartSimulation

SpecEstimator == InitEstimator /\ [][NextEstimator]_vars

\* The engine with the incubation slider moved at will, quarantine mode on or
\* off since the restart.
InitIncubation ==
    \E m \in BOOLEAN, r \in RecoveryTimes : InitWith(1, m, 70, 1, 20, r)

NextIncubation ==
    \/ animate
    \/ restartSimulation
    \/ setIncubationPeriod

SpecIncubation == InitIncubation /\ [][NextIncubation]_vars

\* The speed slider moved between the frames, quarantine mode off.
InitSpeed == \E r \in RecoveryTimes : InitWith(1, FALSE, 70, 1, 20, r)

NextSpeed ==
    \/ animate
    \/ restartSimulation
    \/ setSpeed

SpecSpeed == InitSpeed /\ [][NextSpeed]_vars

\* getCommunityBounds called on any index of IndexInputs.
IndexInputs == (0 - MaxIndex) .. MaxIndex

callGetCommunityBounds ==
    /\ \E idx \in IndexInputs : boundsCall' = <<idx, getCommunityBounds(idx)>>
    /\ UNCHANGED <<engine, stats, config, passCall>>

InitLayout == \E r \in RecoveryTimes : InitWith(1, FALSE, 70, 1, 20, r)

NextLayout == callGetCommunityBounds

SpecLayout == InitLayout /\ [][NextLayout]_vars

\* The infection pass (lines 489-544) run on its own, on two particles in the
\* states the engine leaves them in: at home (at the centre or not), visiting
\* community 1, or quarantined; at positions closer than the infection radius,
\* at the radius (along an axis and across) and farther.  A behaviour runs the
\* pass once.
ContactPositions ==
    {<<100, 100>>, <<110, 100>>, <<112, 116>>, <<120, 100>>, <<130, 100>>}

ContactParticle(i, status, place) ==
    [InitialParticle(i, 0) EXCEPT
        !.status = status,
        !.timeInfected = IF status = "healthy" THEN 0 ELSE 1,
        !.willDie = IF status \in {"infected", "dead"} THEN Tri(status = "dead")
                    ELSE "undefined",
        !.currentCommunity = IF place = "visiting" THEN 1
                             ELSE IF place = "quarantine" THEN QUARANTINE_COMMUNITY_IDX
                             ELSE @,
        !.isVisiting = (place = "visiting"),
        !.visitTimeLeft = IF place = "visiting" THEN 1 ELSE 0,
        !.atCentre = (place = "centre"),
        !.centreTimeLeft = IF place = "centre" THEN 1 ELSE 0,
        !.quarantined = (place = "quarantine")]

ContactParticles(i) ==
    {ContactParticle(i, s, pl) :
        s \in {"healthy", "exposed", "infected", "dead"},
        pl \in {"home", "centre", "visiting"}}
    \cup {ContactParticle(i, s, "quarantine") : s \in {"infected", "dead"}}

PassInputs == {ps \in [Agents -> UNION {ContactParticles(i) : i \in Agents}] :
                 \A i \in Agents : ps[i] \in ContactParticles(i)}

callInfectionPass ==
    /\ passCall = <<>>
    /\ \E ps \in PassInputs, pos \in [Agents -> ContactPositions] :
          \E st \in InfectionPass([ps |-> ps, events |-> <<>>, counts |-> EmptyCounts],
                                   pos, 0, 1) :
              passCall' = [ps |-> ps, pos |-> pos, out |-> st.ps]
    /\ UNCHANGED <<engine, stats, config, boundsCall>>

InitContact == \E r \in RecoveryTimes : InitWith(1, FALSE, 70, 1, 20, r)

NextContact == callInfectionPass

SpecContact == InitContact /\ [][NextContact]_vars

\* ------------------------------------------------ the spec's vocabulary
\* quarantine status (spec section 3), read off the particle's fields
QuarantineStatus(p) ==
    IF p.quarantineEntryAnim # Undef THEN "EnRouteToQuarantine"
    ELSE IF p.goingHomeAnim # Undef THEN "EnRouteHome"
    ELSE IF p.quarantined THEN "Quarantined"
    ELSE IF p.quarantineEligible = "true" THEN "PendingDetection"
    ELSE "NotQuarantined"

\* a step of animate at speed 1 is one tick
IsTick == timeRef' = timeRef + 1

\* ------------------------------------------------------------ claims
\* C1: a particle whose quarantine status is anything but NotQuarantined
\* (pending detection, in entry transit, quarantined, going home) is infected,
\* recovered or dead: none is healthy or exposed.
C1_QuarantineNeedsInfection ==
    \A i \in Agents :
        QuarantineStatus(particles[i]) # "NotQuarantined"
            => particles[i].status \in {"infected", "recovered", "dead"}

\* a particle is quarantined while another is still healthy or exposed
C1_Witness ==
    \E i, j \in Agents :
        /\ particles[i].quarantined
        /\ particles[i].status = "infected"
        /\ particles[j].status \in {"healthy", "exposed"}

InQuarantineCommunity(p) == p.currentCommunity = QUARANTINE_COMMUNITY_IDX

\* C2 as stated: currentCommunity is 8 exactly for the particles in entry
\* transit, quarantined or going home.
C2_AsStated ==
    \A i \in Agents :
        InQuarantineCommunity(particles[i])
            <=> QuarantineStatus(particles[i])
                    \in {"EnRouteToQuarantine", "Quarantined", "EnRouteHome"}

\* C2 amended: currentCommunity is 8 exactly for the particles that are
\* quarantined or going home (a particle in entry transit keeps its normal
\* community until it arrives); so the particles in community 8 are as many as
\* those in these two statuses.
C2_CommunityEightIffQuarantined ==
    /\ \A i \in Agents :
          /\ InQuarantineCommunity(particles[i])
                <=> QuarantineStatus(particles[i]) \in {"Quarantined", "EnRouteHome"}
          /\ ~InQuarantineCommunity(particles[i])
                => particles[i].currentCommunity \in Communities
    /\ Cardinality({i \in Agents : InQuarantineCommunity(particles[i])})
         = Cardinality({i \in Agents :
                          QuarantineStatus(particles[i]) \in {"Quarantined", "EnRouteHome"}})

\* one particle is in entry transit while another one is quarantined
C2_Witness ==
    \E i, j \in Agents :
        /\ QuarantineStatus(particles[i]) = "EnRouteToQuarantine"
        /\ QuarantineStatus(particles[j]) = "Quarantined"

FiveCounts(h) == h.healthy + h.exposed + h.infected + h.recovered + h.dead

\* C3 as stated: the five health counts of a history record sum to the number of
\* particles.
C3_AsStated ==
    \A k \in 1 .. Len(history) : FiveCounts(history[k]) = NumAgents

\* C3 amended: the five health counts and the quarantined count of a history
\* record sum to the number of particles, and the collection keeps its size.
C3_SixCountsSumToTotal ==
    /\ \A k \in 1 .. Len(history) :
          FiveCounts(history[k]) + history[k].quarantined = NumAgents
    /\ DOMAIN particles = Agents

\* a record that counts a quarantined particle
C3_Witness ==
    \E k \in 1 .. Len(history) : history[k].quarantined > 0

\* C4: on every tick every infected particle, quarantined or not, either gains
\* one tick of timeInfected or becomes dead or recovered.
C4_InfectedProgressEveryTick ==
    [][IsTick =>
        \A i \in Agents :
            particles[i].status = "infected" =>
                \/ /\ particles'[i].status = "infected"
                   /\ particles'[i].timeInfected = particles[i].timeInfected + 1
                \/ particles'[i].status \in {"dead", "recovered"}]_vars

\* C5: with death rate 1 no particle recovers, and a particle infected since the
\* restart is dead from the first tick at which timeInfected of a particle that
\* is evaluated every tick exceeds half the recovery time.
C5_InfectedDie ==
    \A i \in Agents :
        /\ particles[i].status # "recovered"
        /\ (i < initialInfected /\ 2 * timeRef > recoveryTime)
              => particles[i].status = "dead"

\* ticks from the start of a transit of length d to the arrival (lines 286-306)
RECURSIVE TransitTicks(_)
TransitTicks(d) ==
    IF d < ARRIVAL_EPS THEN 0 ELSE 1 + TransitTicks(d - Min(d, TRANSIT_STEP))

MaxEntryTicks ==
    LET far == CHOOSE d \in EntryDistances : \A e \in EntryDistances : e <= d
    IN TransitTicks(far)

\* has been through the quarantine and is back home
Returned(p) ==
    /\ p.status \in {"recovered", "dead"}
    /\ ~p.quarantined
    /\ p.timeSinceInfected = Undef

\* C6: with quarantine mode on and effectiveness 100, an infected particle is
\* quarantined (flag set, community 8) at its tick DETECTION_DELAY + transit
\* ticks at the latest: before that, timeSinceInfected counts its infected ticks
\* and stays below the bound; a particle infected since the restart is
\* quarantined, or already back home, from that tick on.
C6_QuarantinedWithinBound ==
    \A i \in Agents :
        LET p == particles[i]
        IN /\ (p.status = "infected" /\ ~p.quarantined) =>
                 /\ p.quarantineEligible # "false"
                 /\ p.timeSinceInfected # Undef
                 /\ p.timeSinceInfected < DETECTION_DELAY + MaxEntryTicks
                 /\ i < initialInfected => p.timeSinceInfected = timeRef
           /\ p.quarantined => InQuarantineCommunity(p)
           /\ (i < initialInfected /\ timeRef >= DETECTION_DELAY + MaxEntryTicks) =>
                 p.quarantined \/ Returned(p)

\* a particle infected during the run has reached the quarantine
C6_Witness ==
    \E i \in Agents :
        /\ i >= initialInfected
        /\ particles[i].quarantined
        /\ InQuarantineCommunity(particles[i])

\* C7: with infection probability 0 no particle is ever exposed: the particles
\* that are not healthy are the initially infected ones, and no infection event
\* or per-source count is recorded.
C7_NoTransmission ==
    /\ infectionEvents = <<>>
    /\ \A i \in Agents :
          /\ particles[i].status # "exposed"
          /\ particles[i].status # "healthy" <=> i < initialInfected
          /\ infectedInfectionCounts[i] \in {Undef, 0}

\* an infected particle has met a healthy one: same community, same position
\* class, several ticks long
C7_Witness ==
    \E i, j \in Agents :
        /\ particles[i].status = "infected"
        /\ particles[i].timeInfected >= 3
        /\ particles[j].status = "healthy"
        /\ particles[i].currentCommunity = particles[j].currentCommunity
        /\ ~particles[i].atCentre /\ ~particles[j].atCentre

\* C8: with quarantine mode off since the restart, every particle stays
\* NotQuarantined: no eligibility draw, no transit, no quarantine, never in
\* community 8.
C8_NeverQuarantined ==
    \A i \in Agents :
        /\ QuarantineStatus(particles[i]) = "NotQuarantined"
        /\ particles[i].quarantineEligible = "undefined"
        /\ particles[i].quarantineEntryAnim = Undef
        /\ particles[i].goingHomeAnim = Undef
        /\ ~particles[i].quarantined
        /\ ~InQuarantineCommunity(particles[i])

\* a particle infected for longer than the detection delay
C8_Witness ==
    \E i \in Agents :
        /\ particles[i].status = "infected"
        /\ particles[i].timeInfected > DETECTION_DELAY

MovementState(p) ==
    <<p.currentCommunity, p.atCentre, p.centreTimeLeft, p.isVisiting, p.visitTimeLeft,
      p.isTravelling, p.travellingBack, p.travelTarget>>

OutsideQuarantineLifecycle(p) ==
    /\ ~p.quarantined
    /\ p.quarantineEntryAnim = Undef
    /\ p.goingHomeAnim = Undef

\* C10: a tick leaves the movement mode, the travel progress and the community
\* of a dead particle alone, unless the particle is in a quarantine transit.
C10_DeadStayPut ==
    [][IsTick =>
        \A i \in Agents :
            (/\ particles[i].status = "dead"
             /\ OutsideQuarantineLifecycle(particles[i])
             /\ OutsideQuarantineLifecycle(particles'[i]))
                => MovementState(particles'[i]) = MovementState(particles[i])]_vars

\* in the quarantine: flagged quarantined or in community 8
Isolated(p) == p.quarantined \/ InQuarantineCommunity(p)

\* C11: a particle that is quarantined or in community 8 neither transmits nor
\* receives: the source of every event recorded in a tick is outside the
\* quarantine before and after the tick, and so is every particle that turns
\* exposed in the tick.
C11_QuarantineIsolated ==
    [][IsTick =>
        /\ \A k \in (Len(infectionEvents) + 1) .. Len(infectionEvents') :
              LET src == infectionEvents'[k].infectorIndex
              IN ~Isolated(particles[src]) /\ ~Isolated(particles'[src])
        /\ \A i \in Agents :
              (particles[i].status # "exposed" /\ particles'[i].status = "exposed")
                 => ~Isolated(particles[i]) /\ ~Isolated(particles'[i])]_vars

\* an infected particle has spent a whole tick in the quarantine beside a
\* healthy particle
C11_Witness ==
    \E i, j \in Agents :
        /\ particles[i].quarantined
        /\ InQuarantineCommunity(particles[i])
        /\ particles[i].status = "infected"
        /\ timeRef >= particles[i].timeInfected + 2
        /\ particles[j].status = "healthy"

\* C12: once willDie, respectively quarantineEligible, of an infected particle
\* is decided it keeps its value as long as the particle stays infected, over
\* every tick and every change of the death rate, of the effectiveness and of
\* the quarantine mode; willDie is decided in the particle's first tick as
\* infected, so it is drawn once per episode.
C12_DrawsFixed ==
    [][(IsTick \/ UNCHANGED engine) =>
        \A i \in Agents :
            LET p == particles[i]
                q == particles'[i]
            IN (p.status = "infected" /\ q.status = "infected") =>
                 /\ p.willDie # "undefined" => q.willDie = p.willDie
                 /\ p.quarantineEligible # "undefined"
                       => q.quarantineEligible = p.quarantineEligible
                 /\ IsTick => q.willDie # "undefined"]_vars

\* a particle drawn to survive and to escape detection, still infected after
\* the death rate and the effectiveness were both raised to 100%
C12_Witness ==
    \E i \in Agents :
        /\ particles[i].status = "infected"
        /\ particles[i].timeInfected >= 3
        /\ particles[i].willDie = "false"
        /\ deathRate = 100
        /\ particles[i].quarantineEligible = "false"
        /\ quarantineMode
        /\ quarantineEffectiveness = 100

\* movement mode Settled: at home business, no centre visit, visit or travel
Settled(p) == ~p.atCentre /\ ~p.isVisiting /\ ~p.isTravelling /\ ~p.travellingBack

\* a run that has not started: nothing of an earlier run is left
FreshRun ==
    /\ timeRef = 0
    /\ infectionEvents = <<>>
    /\ \A i \in Agents : infectedInfectionCounts[i] = Undef
    /\ rt = <<0, 1>>
    /\ maxRt = <<0, 1>>
    /\ history = <<>>
    /\ historyLen = 0
    /\ DOMAIN particles = Agents
    /\ \A i \in Agents :
          LET p == particles[i]
          IN /\ p.status = IF i < initialInfected THEN "infected" ELSE "healthy"
             /\ p.timeInfected = 0
             /\ p.willDie = "undefined"
             /\ p.homeCommunity \in Communities
             /\ p.currentCommunity = p.homeCommunity
             /\ Settled(p)
             /\ p.travelTarget = Undef
             /\ p.visitTimeLeft = 0 /\ p.centreTimeLeft = 0
             /\ QuarantineStatus(p) = "NotQuarantined"
             /\ p.timeSinceInfected \in {Undef, 0}

\* C13: a restart, from whatever state, leaves a fresh run: time 0, no event, no
\* per-source count, estimate and maximum 0, empty history, and a population of
\* the same size whose first initialInfected particles are infected and the
\* others healthy, each at home in a community 0..7, settled and not quarantined.
C13_RestartIsFresh == [][restartSimulation => FreshRun']_vars

\* a fresh run whose population could only come from a restart after the number
\* of initially infected particles was changed
C13_Witness ==
    /\ timeRef = 0
    /\ initialInfected = 2
    /\ \A i \in Agents : particles[i].status = "infected"
    /\ FreshRun

\* the sources of the events of the trailing 50 ticks
WindowSources ==
    {infectionEvents[k].infectorIndex :
        k \in {n \in 1 .. Len(infectionEvents) : infectionEvents[n].time > timeRef - 50}}

EpisodeCount(i) ==
    IF infectedInfectionCounts[i] = Undef THEN 0 ELSE infectedInfectionCounts[i]

\* C14: the estimate a frame leaves is 0 when no event of the log lies in the
\* trailing 50 ticks (so at tick 0 and after a restart); otherwise it is the sum
\* of the current counts of the distinct sources of the events in that window,
\* divided by the number of these sources.
C14_EstimateOverWindow ==
    rt = IF WindowSources = {}
         THEN <<0, 1>>
         ELSE Ratio(SumOver([i \in Agents |-> EpisodeCount(i)], WindowSources),
                    Cardinality(WindowSources))

\* an event has left the window while another one is still in it
C14_Witness ==
    /\ \E k, l \in 1 .. Len(infectionEvents) :
          /\ infectionEvents[k].time <= timeRef - 50
          /\ infectionEvents[l].time > timeRef - 50
          /\ infectionEvents[k].infectorIndex # infectionEvents[l].infectorIndex
    /\ rt # <<0, 1>>

\* C15: a frame (a call of animate) at speed s adds exactly s to the time and
\* exactly one record to the history, stamped with the new time, which is later
\* than the time of the record before it; no other step adds a record, and only
\* a restart empties the history.
C15_OneRecordPerFrame ==
    [][/\ timeRef' > timeRef =>
            /\ timeRef' = timeRef + speed
            /\ historyLen' = historyLen + 1
            /\ Len(history') = 1
            /\ history'[1].time = timeRef'
            /\ history # <<>> => history'[1].time > history[1].time
       /\ historyLen' # historyLen =>
            \/ timeRef' > timeRef
            \/ timeRef' = 0 /\ historyLen' = 0 /\ history' = <<>>
       /\ timeRef' <= timeRef => timeRef' \in {timeRef, 0}]_vars

\* two frames, one at speed 1 and one at speed 2
C15_Witness ==
    /\ timeRef = 3
    /\ historyLen = 2
    /\ history # <<>>
    /\ history[1].time = 3

\* C16: getCommunityBounds throws for every index outside 0..8, negative ones
\* included, and returns bounds for every index of 0..8.
C16_BoundsRejectOutOfRange ==
    boundsCall # <<>> =>
        (boundsCall[2].error # "" <=> boundsCall[1] \notin 0 .. 8)

\* C17: a particle starts the entry transit only in a tick with quarantine mode
\* on, in which it is infected, not quarantined, outside community 8, drawn
\* eligible and with timeSinceInfected at 5 or more, and the transit starts with
\* the centre, visiting and travelling flags cleared; a particle is quarantined
\* only out of a transit; an infected particle drawn ineligible is neither in
\* transit nor quarantined.
C17_TransitOnlyWhenDetected ==
    [][IsTick =>
        \A i \in Agents :
            LET p == particles[i]
                q == particles'[i]
            IN /\ (p.quarantineEntryAnim = Undef /\ q.quarantineEntryAnim # Undef) =>
                     /\ quarantineMode
                     /\ p.status = "infected"
                     /\ ~p.quarantined
                     /\ ~InQuarantineCommunity(p)
                     /\ q.quarantineEligible = "true"
                     /\ q.timeSinceInfected >= 5
                     /\ ~q.atCentre /\ ~q.isVisiting /\ ~q.isTravelling
               /\ (~p.quarantined /\ q.quarantined) => p.quarantineEntryAnim # Undef
               /\ (q.status = "infected" /\ q.quarantineEligible = "false") =>
                     q.quarantineEntryAnim = Undef /\ ~q.quarantined]_vars

\* a particle in entry transit beside a particle drawn ineligible that has been
\* infected for longer than the detection delay
C17_Witness ==
    \E i, j \in Agents :
        /\ particles[i].quarantineEntryAnim # Undef
        /\ particles[j].status = "infected"
        /\ particles[j].quarantineEligible = "false"
        /\ particles[j].timeInfected >= DETECTION_DELAY

\* the state of a particle that has arrived home (lines 316-330)
ArrivedHome(q) ==
    /\ q.goingHomeAnim = Undef
    /\ ~q.quarantined
    /\ q.currentCommunity = q.homeCommunity
    /\ q.quarantineEligible = "undefined"
    /\ q.timeSinceInfected = Undef
    /\ ~q.atCentre /\ ~q.isVisiting /\ ~q.isTravelling

\* C18 as stated: a quarantined particle that is recovered or dead and not yet
\* on its way home is on its way home, or home, after its next tick, whatever
\* the configuration is.
C18_ReleaseBeginsNextUpdate ==
    [][IsTick =>
        \A i \in Agents :
            ReleaseGuard(particles[i]) =>
                \/ particles'[i].goingHomeAnim # Undef
                \/ ArrivedHome(particles'[i])]_vars

\* C18: a quarantined particle that is recovered or dead starts the going-home
\* transit in its next tick run with quarantine mode on, and is left as it is by
\* a tick run with quarantine mode off; once the transit has started, every
\* tick, whatever the configuration, either shortens the remaining distance or
\* ends the transit, and at the end the particle is not quarantined, in its home
\* community, with quarantineEligible and timeSinceInfected undefined and the
\* centre, visiting and travelling flags cleared.
C18_ReleasedWhenModeOn ==
    [][IsTick =>
        \A i \in Agents :
            LET p == particles[i]
                q == particles'[i]
            IN /\ (ReleaseGuard(p) /\ quarantineMode) =>
                     \/ q.goingHomeAnim # Undef /\ q.quarantined
                     \/ ArrivedHome(q)
               /\ (ReleaseGuard(p) /\ ~quarantineMode) => q = p
               /\ p.goingHomeAnim # Undef =>
                     \/ /\ q.goingHomeAnim # Undef
                        /\ q.goingHomeAnim < p.goingHomeAnim
                        /\ q.quarantined
                     \/ ArrivedHome(q)]_vars

\* a dead particle one tick from home, with quarantine mode switched off
C18_Witness ==
    \E i \in Agents :
        /\ particles[i].status \in {"recovered", "dead"}
        /\ particles[i].quarantined
        /\ particles[i].goingHomeAnim # Undef
        /\ particles[i].goingHomeAnim < ARRIVAL_EPS
        /\ ~quarantineMode
        /\ timeRef < MaxTime

\* C19 as stated: a tick run with quarantine mode off changes no particle's
\* quarantine status.
C19_StatusFrozenWhenOff ==
    [][(IsTick /\ ~quarantineMode) =>
        \A i \in Agents :
            QuarantineStatus(particles'[i]) = QuarantineStatus(particles[i])]_vars

\* C19: in a tick run with quarantine mode off no particle starts an entry
\* transit or a going-home transit, a particle becomes quarantined only by
\* finishing an entry transit already under way and stops being quarantined
\* only by finishing a going-home transit already under way, quarantineEligible
\* and timeSinceInfected change only at an arrival home, and a particle outside
\* the quarantine lifecycle is moved by the normal behaviour.
C19_NothingStartsWhenOff ==
    [][(IsTick /\ ~quarantineMode) =>
        \A i \in Agents :
            LET p == particles[i]
                q == particles'[i]
            IN /\ p.quarantineEntryAnim = Undef => q.quarantineEntryAnim = Undef
               /\ p.goingHomeAnim = Undef => q.goingHomeAnim = Undef
               /\ (~p.quarantined /\ q.quarantined) =>
                     p.quarantineEntryAnim # Undef /\ p.quarantineEntryAnim < ARRIVAL_EPS
               /\ (p.quarantined /\ ~q.quarantined) =>
                     p.goingHomeAnim # Undef /\ p.goingHomeAnim < ARRIVAL_EPS
               /\ p.goingHomeAnim = Undef =>
                     /\ q.quarantineEligible = p.quarantineEligible
                     /\ q.timeSinceInfected = p.timeSinceInfected
               /\ OutsideQuarantineLifecycle(p) =>
                     /\ OutsideQuarantineLifecycle(q)
                     /\ MovementState(q) \in {MovementState(r) : r \in NormalBehaviour(p)}]_vars

\* quarantine mode is switched off while a particle is in entry transit, with
\* a tick still to run
C19_Witness ==
    /\ ~quarantineMode
    /\ timeRef < MaxTime
    /\ \E i \in Agents :
          /\ particles[i].quarantineEntryAnim # Undef
          /\ particles[i].quarantineEntryAnim < ARRIVAL_EPS

\* C20: over a tick an exposed particle becomes infected exactly when its
\* timer, counted up by one, exceeds the incubation period in force, and
\* otherwise stays exposed with the timer one higher; a healthy particle that
\* is exposed ends the tick with timer 1, so the timer of an exposed particle
\* is the number of its exposed ticks and the transition falls in the first
\* tick whose count exceeds the period; only an exposed particle becomes
\* infected; at the transition timeInfected is 0, willDie is undefined and,
\* with quarantine mode on, timeSinceInfected is 0 and quarantineEligible is
\* undefined.
C20_IncubationExact ==
    [][IsTick =>
        \A i \in Agents :
            LET p == particles[i]
                q == particles'[i]
            IN /\ p.status = "exposed" =>
                     IF p.timeInfected + 1 > incubationPeriod
                     THEN /\ q.status = "infected"
                          /\ q.timeInfected = 0
                          /\ q.willDie = "undefined"
                          /\ quarantineMode =>
                                /\ q.timeSinceInfected = 0
                                /\ q.quarantineEligible = "undefined"
                     ELSE /\ q.status = "exposed"
                          /\ q.timeInfected = p.timeInfected + 1
                          /\ q.timeInfected <= incubationPeriod
               /\ (p.status = "healthy" /\ q.status # "healthy") =>
                     /\ q.status = "exposed"
                     /\ q.timeInfected = 1
               /\ (p.status # "infected" /\ q.status = "infected") =>
                     p.status = "exposed"]_vars

\* a particle in its third exposed tick under incubation period 3, with
\* quarantine mode on: its next tick ends the incubation
C20_Witness ==
    /\ quarantineMode
    /\ incubationPeriod = 3
    /\ timeRef < MaxTime
    /\ \E i \in Agents :
          /\ particles[i].status = "exposed"
          /\ particles[i].timeInfected = 3

\* the events pushed by the step (lines 532-535)
NewEvents ==
    SubSeq(infectionEvents', Len(infectionEvents) + 1, Len(infectionEvents'))

PushedBy(i) == {k \in 1 .. Len(NewEvents) : NewEvents[k].infectorIndex = i}

\* C21: a particle that stops being infected in a tick has its willDie drawn
\* (in that tick at the latest, and never redrawn), has counted the tick on
\* timeInfected, becomes dead exactly when willDie is true, and then
\* timeInfected exceeds half the recovery time, becomes recovered exactly when
\* willDie is false, and then timeInfected exceeds the recovery time, and has
\* pushed no infection event in that tick.
C21_OutcomeAsDrawn ==
    [][IsTick =>
        \A i \in Agents :
            LET p == particles[i]
                q == particles'[i]
            IN (p.status = "infected" /\ q.status # "infected") =>
                  /\ q.willDie \in {"true", "false"}
                  /\ p.willDie # "undefined" => q.willDie = p.willDie
                  /\ q.timeInfected = p.timeInfected + 1
                  /\ q.willDie = "true" =>
                        q.status = "dead" /\ 2 * q.timeInfected > recoveryTime
                  /\ q.willDie = "false" =>
                        q.status = "recovered" /\ q.timeInfected > recoveryTime
                  /\ PushedBy(i) = {}]_vars

\* one particle has died and another has recovered
C21_Witness ==
    \E i, j \in Agents :
        /\ particles[i].status = "dead"
        /\ particles[i].willDie = "true"
        /\ particles[j].status = "recovered"
        /\ particles[j].willDie = "false"

\* infectedInfectionCountsRef.current.get(i) ?? 0 (lines 536, 641)
CountRead(counts, i) == IF counts[i] = Undef THEN 0 ELSE counts[i]

Attributed(events, i) == {k \in 1 .. Len(events) : events[k].infectorIndex = i}

\* C22: a tick pushes as many events as particles leave healthy in it, each
\* stamped with the time of the tick and attributing a particle that is infected
\* and not quarantined, and raises the count of every particle still infected
\* by the number of events it pushed; so the log is as long as the number of
\* particles that are not healthy less the initially infected ones, and the
\* count of an infected particle is the number of events of the log that
\* attribute it.
C22_OneEventPerExposure ==
    /\ [](/\ Len(infectionEvents)
               = Cardinality({i \in Agents : particles[i].status # "healthy"})
                   - Cardinality({i \in Agents : i < initialInfected})
          /\ \A i \in Agents :
                particles[i].status = "infected" =>
                    CountRead(infectedInfectionCounts, i)
                        = Cardinality(Attributed(infectionEvents, i)))
    /\ [][IsTick =>
           /\ Len(infectionEvents') >= Len(infectionEvents)
           /\ SubSeq(infectionEvents', 1, Len(infectionEvents)) = infectionEvents
           /\ Len(NewEvents)
                = Cardinality({j \in Agents : /\ particles[j].status = "healthy"
                                              /\ particles'[j].status # "healthy"})
           /\ \A k \in 1 .. Len(NewEvents) :
                 /\ NewEvents[k].time = timeRef'
                 /\ particles'[NewEvents[k].infectorIndex].status = "infected"
                 /\ ~particles'[NewEvents[k].infectorIndex].quarantined
           /\ \A i \in Agents :
                 (particles[i].status = "infected" /\ particles'[i].status = "infected") =>
                     CountRead(infectedInfectionCounts', i)
                         = CountRead(infectedInfectionCounts, i)
                             + Cardinality(PushedBy(i))]_vars

\* a particle is infected with one contact counted and logged, and the particle
\* it infected has left healthy
C22_Witness ==
    \E i, j \in Agents :
        /\ i # j
        /\ particles[i].status = "infected"
        /\ infectedInfectionCounts[i] = 1
        /\ Attributed(infectionEvents, i) # {}
        /\ particles[j].status \in {"exposed", "infected"}
        /\ j >= initialInfected

\* squared Euclidean distance of two positions (line 527)
DistSq(a, b) == (a[1] - b[1]) * (a[1] - b[1]) + (a[2] - b[2]) * (a[2] - b[2])

\* C23: a particle that an infection pass turns from healthy to exposed had, in
\* that pass, an infected particle that was not quarantined, in the same
\* community (one of 0..7), with the same at-centre flag, at a distance strictly
\* below the infection radius; a pass changes a healthy particle in no other way.
C23_ExposedOnlyInContact ==
    passCall # <<>> =>
        \A j \in Agents :
            LET before == passCall.ps[j]
                after == passCall.out[j]
            IN before.status = "healthy" =>
                  \/ after = before
                  \/ /\ after = [before EXCEPT !.status = "exposed"]
                     /\ \E i \in Agents \ {j} :
                           /\ passCall.ps[i].status = "infected"
                           /\ ~passCall.ps[i].quarantined
                           /\ passCall.ps[i].currentCommunity = before.currentCommunity
                           /\ before.currentCommunity \in Communities
                           /\ passCall.ps[i].atCentre = before.atCentre
                           /\ DistSq(passCall.pos[i], passCall.pos[j])
                                 < infectionRadius * infectionRadius

\* a pass has exposed a particle at the centre of its community
C23_Witness ==
    /\ passCall # <<>>
    /\ \E j \in Agents :
          /\ passCall.ps[j].status = "healthy"
          /\ passCall.ps[j].atCentre
          /\ passCall.out[j].status = "exposed"

\* C24: a particle that starts a spontaneous travel in a tick (travelling
\* after it, not before, and not on its way back) was, before the tick, not at
\* the centre, not visiting, in its home community and neither in a quarantine
\* transit nor quarantined; after the tick its community is one of 0..7 other
\* than the one it was in, and it is travelling out: not at the centre, not
\* visiting, not travelling back.
C24_TravelFromHome ==
    [][IsTick =>
        \A i \in Agents :
            LET p == particles[i]
                q == particles'[i]
            IN (~p.isTravelling /\ q.isTravelling /\ ~q.travellingBack) =>
                  /\ ~p.atCentre /\ ~p.isVisiting
                  /\ p.currentCommunity = p.homeCommunity
                  /\ OutsideQuarantineLifecycle(p)
                  /\ q.currentCommunity \in Communities
                  /\ q.currentCommunity # p.currentCommunity
                  /\ ~q.atCentre /\ ~q.isVisiting
                  /\ OutsideQuarantineLifecycle(q)]_vars

\* a particle has just left for another community
C24_Witness ==
    \E i \in Agents :
        /\ particles[i].isTravelling
        /\ ~particles[i].travellingBack
        /\ particles[i].travelTarget = Undef
        /\ particles[i].currentCommunity # particles[i].homeCommunity

\* C25: of atCentre, isVisiting and isTravelling at most one is set,
\* travellingBack is set only with isTravelling, and a particle in a quarantine
\* transit or quarantined has none of the four set.
C25_MovementModesExclusive ==
    \A i \in Agents :
        LET p == particles[i]
        IN /\ ~(p.atCentre /\ p.isVisiting)
           /\ ~(p.atCentre /\ p.isTravelling)
           /\ ~(p.isVisiting /\ p.isTravelling)
           /\ p.travellingBack => p.isTravelling
           /\ ~OutsideQuarantineLifecycle(p) =>
                 /\ ~p.atCentre /\ ~p.isVisiting
                 /\ ~p.isTravelling /\ ~p.travellingBack

\* a particle detected during a visit: in entry transit from another community
\* than its own
C25_Witness ==
    \E i \in Agents :
        /\ particles[i].quarantineEntryAnim # Undef
        /\ particles[i].currentCommunity # particles[i].homeCommunity
        /\ particles[i].visitTimeLeft > 0

\* C26: a particle has a travel target only while it is travelling.
C26_TargetOnlyWhileTravelling ==
    \A i \in Agents :
        particles[i].travelTarget # Undef => particles[i].isTravelling

\* the transitions of the health status (lines 503, 508, 530, 552)
Forward(a, b) ==
    \/ a = b
    \/ <<a, b>> \in {<<"healthy", "exposed">>, <<"exposed", "infected">>,
                     <<"infected", "recovered">>, <<"infected", "dead">>}

\* C27: apart from a restart, a step changes the health status of a particle
\* only from healthy to exposed, exposed to infected, infected to recovered or
\* infected to dead (so recovered and dead are kept and healthy is never
\* returned to); an entry transit starts only for an infected particle that is
\* not quarantined, a particle becomes quarantined only out of an entry
\* transit, and a particle that stops being quarantined is recovered or dead:
\* so it is never quarantined a second time.
C27_StatusOnlyForward ==
    [][\/ restartSimulation
       \/ \A i \in Agents :
             LET p == particles[i]
                 q == particles'[i]
             IN /\ Forward(p.status, q.status)
                /\ (p.quarantineEntryAnim = Undef /\ q.quarantineEntryAnim # Undef) =>
                      p.status = "infected" /\ ~p.quarantined
                /\ (~p.quarantined /\ q.quarantined) => p.quarantineEntryAnim # Undef
                /\ (p.quarantined /\ ~q.quarantined) =>
                      q.status \in {"recovered", "dead"}]_vars

\* a particle infected during the run beside one that died in the entry
\* transit and is on its way home from the quarantine
C27_Witness ==
    \E i, j \in Agents :
        /\ i >= initialInfected
        /\ particles[i].status = "infected"
        /\ particles[j].status = "dead"
        /\ particles[j].goingHomeAnim # Undef

\* C28: the community of a particle is 8 exactly when its quarantined flag is
\* set; the flag is set throughout the going-home transit and unset, with a
\* community of 0..7, throughout the entry transit; the two transits are never
\* both under way.
C28_EightIffQuarantinedFlag ==
    \A i \in Agents :
        LET p == particles[i]
        IN /\ p.currentCommunity = QUARANTINE_COMMUNITY_IDX <=> p.quarantined
           /\ p.goingHomeAnim # Undef => p.quarantined
           /\ p.quarantineEntryAnim # Undef =>
                 /\ ~p.quarantined
                 /\ p.currentCommunity \in Communities
           /\ ~(p.quarantineEntryAnim # Undef /\ p.goingHomeAnim # Undef)

\* a particle on its way home from the quarantine: flag set, community 8
C28_Witness ==
    \E i \in Agents :
        /\ particles[i].goingHomeAnim # Undef
        /\ particles[i].quarantined
        /\ particles[i].currentCommunity = QUARANTINE_COMMUNITY_IDX

\* C29: in a history record the quarantined count is the number of particles
\* with the quarantined flag set, each of the five health counts is the number
\* of particles with that status and the flag unset, and the six counts sum to
\* the number of particles.
C29_EachParticleCountedOnce ==
    \A k \in 1 .. Len(history) :
        LET h == history[k]
            flagged == {i \in Agents : particles[i].quarantined}
            free(s) == {i \in Agents \ flagged : particles[i].status = s}
        IN /\ h.quarantined = Cardinality(flagged)
           /\ h.healthy = Cardinality(free("healthy"))
           /\ h.exposed = Cardinality(free("exposed"))
           /\ h.infected = Cardinality(free("infected"))
           /\ h.recovered = Cardinality(free("recovered"))
           /\ h.dead = Cardinality(free("dead"))
           /\ h.healthy + h.exposed + h.infected + h.recovered + h.dead + h.quarantined
                = Cardinality(Agents)

\* a record taken while a dead particle is quarantined: it is counted under
\* quarantined and not under dead
C29_Witness ==
    /\ history # <<>>
    /\ history[1].quarantined = 1
    /\ history[1].dead = 0
    /\ \E i \in Agents : particles[i].quarantined /\ particles[i].status = "dead"

====
